---- MODULE Spec2Model ----
(***************************************************************************)
(* Sequential-impulse contact solvers of src/constraint/contact.ts:        *)
(* ContactConstraint (solve = preSolveVelocity + 20 solveVelocity passes)  *)
(* and CollisionSolver (preSolveVelocity / solveVelocity driven by its     *)
(* caller).                                                                *)
(*                                                                         *)
(* JavaScript numbers are modelled as exact rationals <<n, d>> in lowest   *)
(* terms (d > 0), extended with the IEEE special values the code can       *)
(* produce: <<1,0>> = +Infinity, <<-1,0>> = -Infinity, <<0,0>> = NaN.      *)
(* Rounding is not modelled; zero carries no sign (every divisor the       *)
(* solvers form is a sum of non-negative terms).                           *)
(***************************************************************************)
EXTENDS Integers, Sequences, FiniteSets, TLC

\* ------------------------------------------------------------------------
\* Numbers
\* ------------------------------------------------------------------------

Abs(x) == IF x < 0 THEN -x ELSE x

Sgn(x) == IF x < 0 THEN -1 ELSE IF x > 0 THEN 1 ELSE 0

RECURSIVE Gcd(_, _)
Gcd(a, b) == IF b = 0 THEN a ELSE Gcd(b, a % b)

\* The rational n/d (d > 0) in lowest terms.
Rat(n, d) == LET g == Gcd(Abs(n), d) IN <<n \div g, d \div g>>

Num(n) == <<n, 1>>

Zero == <<0, 1>>

One == <<1, 1>>

NaN == <<0, 0>>

Infinity == <<1, 0>>

IsFinite(a) == a[2] > 0

IsNaN(a) == a = NaN

\* Unary minus.
Neg(a) == <<-a[1], a[2]>>

\* a + b of JavaScript: Infinity + -Infinity and anything with NaN is NaN.
Add(a, b) ==
    IF IsFinite(a) /\ IsFinite(b)
    THEN LET g == Gcd(a[2], b[2])
         IN  Rat(a[1] * (b[2] \div g) + b[1] * (a[2] \div g), (a[2] \div g) * b[2])
    ELSE IF IsNaN(a) \/ IsNaN(b) THEN NaN
    ELSE IF IsFinite(a) THEN b
    ELSE IF IsFinite(b) THEN a
    ELSE IF a = b THEN a ELSE NaN

\* a - b.
Sub(a, b) == Add(a, Neg(b))

\* a * b of JavaScript: 0 * Infinity and anything with NaN is NaN.
Mul(a, b) ==
    IF IsFinite(a) /\ IsFinite(b)
    THEN LET g1 == Gcd(Abs(a[1]), b[2])
             g2 == Gcd(Abs(b[1]), a[2])
         IN  <<(a[1] \div g1) * (b[1] \div g2), (a[2] \div g2) * (b[2] \div g1)>>
    ELSE IF IsNaN(a) \/ IsNaN(b) THEN NaN
    ELSE <<Sgn(a[1]) * Sgn(b[1]), 0>>

\* 1 / a of JavaScript: 1 / 0 is Infinity, 1 / Infinity is 0.
Recip(a) ==
    IF IsNaN(a) THEN NaN
    ELSE IF ~IsFinite(a) THEN Zero
    ELSE IF a[1] = 0 THEN Infinity
    ELSE <<Sgn(a[1]) * a[2], Abs(a[1])>>

\* a / b.
Div(a, b) == Mul(a, Recip(b))

\* a < b of JavaScript: false when either side is NaN.
Lt(a, b) == ~IsNaN(a) /\ ~IsNaN(b) /\ a # b /\ Sgn(Sub(a, b)[1]) < 0

\* a <= b of JavaScript.
Leq(a, b) == ~IsNaN(a) /\ ~IsNaN(b) /\ (a = b \/ Sgn(Sub(a, b)[1]) < 0)

\* Math.max(a, b): NaN when either argument is NaN.
MathMax(a, b) == IF IsNaN(a) \/ IsNaN(b) THEN NaN ELSE IF Lt(a, b) THEN b ELSE a

\* Util.clamp(x, min, max).
Clamp(x, lo, hi) == IF Lt(x, lo) THEN lo ELSE IF Lt(hi, x) THEN hi ELSE x

\* ------------------------------------------------------------------------
\* Vectors <<x, y>> of numbers
\* ------------------------------------------------------------------------

Vec(x, y) == <<Num(x), Num(y)>>

VAdd(u, v) == <<Add(u[1], v[1]), Add(u[2], v[2])>>

VSub(u, v) == <<Sub(u[1], v[1]), Sub(u[2], v[2])>>

VDot(u, v) == Add(Mul(u[1], v[1]), Mul(u[2], v[2]))

\* v.scl(k): the vector scaled by k.
VScl(v, k) == <<Mul(v[1], k), Mul(v[2], k)>>

\* v.inv(): the negated vector.
VInv(v) == <<Neg(v[1]), Neg(v[2])>>

\* r.cro(v): the scalar cross product r x v.
VCro(r, v) == Sub(Mul(r[1], v[2]), Mul(r[2], v[1]))

\* r.croNum(w): the velocity w x r that angular velocity w gives at offset r.
VCroNum(r, w) == <<Neg(Mul(w, r[2])), Mul(w, r[1])>>

\* ------------------------------------------------------------------------
\* Configuration
\* ------------------------------------------------------------------------

\* ContactConstraint.iterations
iterations == 20

\* ContactConstraint.slop = 0.02
slop == Rat(2, 100)

\* ContactConstraint.biasFactor = 0.2
biasFactor == Rat(2, 10)

\* resolver.slop and resolver.biasFactor read by CollisionSolver.
resolverSlop == Rat(2, 100)

resolverBiasFactor == Rat(2, 10)

\* Bounds of the checked instances.
MaxContacts == 2

MaxVel == 1

MaxSpeed == 2

MaxPasses == 3

MaxSteps == 2

\* ------------------------------------------------------------------------
\* Contact, Body, Manifold
\* ------------------------------------------------------------------------

\* A field the constructor does not assign.
Undefined == <<>>

\* new Contact(vertex, depth)
Contact(vertex, depth) ==
    [position |-> vertex, shareNormal |-> Zero, shareTangent |-> Zero,
     inverseMass |-> Zero, normalImpulse |-> Zero, tangentImpulse |-> Zero,
     depth |-> depth, bias |-> Zero, offsetA |-> Undefined, offsetB |-> Undefined]

\* A body of the Body collaborator; kind is "movable", "sleeping", "fixed" (the
\* flag set on a body that keeps its inverse mass) or "static" (the flag set on
\* a body of inverse mass 0).
Body(position, velocity, invMass, invInertia, kind) ==
    [position |-> position, velocity |-> velocity, angularVelocity |-> Zero,
     invMass |-> invMass, invInertia |-> invInertia,
     sleeping |-> (kind = "sleeping"), fixed |-> (kind \in {"fixed", "static"})]

\* body.applyImpulse(impulse, offset): velocity += impulse * invMass and
\* angularVelocity += invInertia * (offset x impulse).
ApplyImpulse(body, impulse, offset) ==
    [body EXCEPT !.velocity = VAdd(@, VScl(impulse, body.invMass)),
                 !.angularVelocity = Add(@, Mul(body.invInertia, VCro(offset, impulse)))]

\* The guard in front of every guarded applyImpulse call.
Movable(body) == ~body.sleeping /\ ~body.fixed

\* The guard of CollisionSolver's first pair of tangent applyImpulse calls.
Awake(body) == ~body.sleeping

\* The skip left out: every manifold is visited.
SkippedNever(manifold) == FALSE

\* if(!manifold.isActive) continue;
Skipped(manifold) == ~manifold.isActive

\* ------------------------------------------------------------------------
\* preSolveVelocity, one contact
\* ------------------------------------------------------------------------

\* contact.offsetA = position - bodyA.position, contact.offsetB likewise.
WithOffsets(contact, A, B) ==
    [contact EXCEPT !.offsetA = VSub(contact.position, A.position),
                    !.offsetB = VSub(contact.position, B.position)]

\* J(M^-1)(J^T) along axis: manifold.inverseMass plus both rotational terms.
InvMassAlong(manifold, contact, A, B, axis) ==
    LET r1 == contact.offsetA
        r2 == contact.offsetB
        ra1 == VDot(r1, axis)
        ra2 == VDot(r2, axis)
        withA == Add(manifold.inverseMass,
                     Mul(A.invInertia, Sub(VDot(r1, r1), Mul(ra1, ra1))))
    IN  Add(withA, Mul(B.invInertia, Sub(VDot(r2, r2), Mul(ra2, ra2))))

\* ContactConstraint: contact.shareNormal = 1 / invMassNormal (no guard).
ShareOf(invMass) == Recip(invMass)

\* CollisionSolver: 1 / (invMassNormal * contactNum), contactNum being
\* manifold.contacts.length.
ShareOfCount(invMass, contactNum) == Recip(Mul(invMass, contactNum))

\* ContactConstraint: biasFactor * (1 / dt) * Math.max(0, contact.depth - slop)
BiasOf(contact, step) ==
    Mul(Mul(biasFactor, Recip(step)), MathMax(Zero, Sub(contact.depth, slop)))

\* CollisionSolver: biasFactor * 1 / dt * Math.max(0, collision.depth + slop)
BiasOfCollision(collision, step) ==
    Mul(Div(Mul(resolverBiasFactor, One), step),
        MathMax(Zero, Add(collision.depth, resolverSlop)))

\* The contact as ContactConstraint.preSolveVelocity leaves it.
PreSolved(manifold, contact, A, B, step) ==
    LET c == WithOffsets(contact, A, B)
        collision == manifold.collision
    IN  [c EXCEPT
           !.shareNormal = ShareOf(InvMassAlong(manifold, c, A, B, collision.normal)),
           !.shareTangent = ShareOf(InvMassAlong(manifold, c, A, B, collision.tangent)),
           !.bias = BiasOf(c, step)]

\* The contact as CollisionSolver.preSolveVelocity leaves it.
PreSolvedCount(manifold, contact, A, B, step) ==
    LET c == WithOffsets(contact, A, B)
        collision == manifold.collision
        contactNum == Num(manifold.contactsLength)
    IN  [c EXCEPT
           !.shareNormal =
               ShareOfCount(InvMassAlong(manifold, c, A, B, collision.normal), contactNum),
           !.shareTangent =
               ShareOfCount(InvMassAlong(manifold, c, A, B, collision.tangent), contactNum),
           !.bias = BiasOfCollision(collision, step)]

\* CollisionSolver's warm start: the accumulated impulse as one vector.
WarmImpulse(collision, contact) ==
    VAdd(VScl(collision.normal, contact.normalImpulse),
         VScl(collision.tangent, contact.tangentImpulse))

\* if (normalImpulse !== 0 || tangentImpulse !== 0)
WarmStarts(contact) == contact.normalImpulse # Zero \/ contact.tangentImpulse # Zero

\* ------------------------------------------------------------------------
\* solveVelocity, one contact
\* ------------------------------------------------------------------------

\* velocityPointB - velocityPointA at the contact.
RelativeVelocity(contact, A, B) ==
    VSub(VAdd(B.velocity, VCroNum(contact.offsetB, B.angularVelocity)),
         VAdd(A.velocity, VCroNum(contact.offsetA, A.angularVelocity)))

\* normalImpulse = restitution * (relativeNormal + bias) * shareNormal
TentativeNormal(manifold, contact, A, B) ==
    LET relativeNormal == VDot(manifold.collision.normal, RelativeVelocity(contact, A, B))
    IN  Mul(Mul(manifold.restitution, Add(relativeNormal, contact.bias)),
            contact.shareNormal)

\* contact.normalImpulse = Math.max(contact.normalImpulse + normalImpulse, 0)
AccumulateNormal(old, tentative) == MathMax(Add(old, tentative), Zero)

\* tangentImpulse = relativeTangent * shareTangent
TentativeTangent(manifold, contact, A, B) ==
    LET relativeTangent == VDot(manifold.collision.tangent, RelativeVelocity(contact, A, B))
    IN  Mul(relativeTangent, contact.shareTangent)

\* maxFriction = friction * contact.normalImpulse
MaxFriction(manifold, contact) == Mul(manifold.friction, contact.normalImpulse)

\* contact.tangentImpulse = clamp(tangentImpulse + tentative, -maxFriction, maxFriction)
AccumulateTangent(old, tentative, maxFriction) ==
    Clamp(Add(old, tentative), Neg(maxFriction), maxFriction)

\* The bodies after the guarded pair of calls: impulse to A, its inverse to B.
ApplyPair(bs, collision, contact, impulse) ==
    LET a == collision.bodyA
        b == collision.bodyB
        b1 == IF Movable(bs[a])
              THEN [bs EXCEPT ![a] = ApplyImpulse(bs[a], impulse, contact.offsetA)]
              ELSE bs
    IN  IF Movable(b1[b])
        THEN [b1 EXCEPT ![b] = ApplyImpulse(b1[b], VInv(impulse), contact.offsetB)]
        ELSE b1

\* CollisionSolver's extra pair of tangent calls, guarded by sleeping alone.
ApplyAwakePair(bs, collision, contact, tangentImpulse) ==
    LET a == collision.bodyA
        b == collision.bodyB
        b1 == IF Awake(bs[a])
              THEN [bs EXCEPT ![a] = ApplyImpulse(bs[a],
                        VScl(collision.tangent, tangentImpulse), contact.offsetA)]
              ELSE bs
    IN  IF Awake(b1[b])
        THEN [b1 EXCEPT ![b] = ApplyImpulse(b1[b],
                  VScl(collision.tangent, Neg(tangentImpulse)), contact.offsetB)]
        ELSE b1

\* ------------------------------------------------------------------------
\* State
\* ------------------------------------------------------------------------

VARIABLES
    solver,     \* the class in use: "ContactConstraint" or "CollisionSolver"
    dt,         \* the timestep handed to every call
    bodies,     \* body id -> Body
    manifolds,  \* the manifold list
    stage,      \* "pre", "vel", "idle" (between the caller's calls) or "done"
    pos,        \* <<i, j>>: the manifold and contact the loops stand at, or End
    axis,       \* "normal" or "tangent": which half of the contact update is next
    iter,       \* solveVelocity passes completed
    step,       \* preSolveVelocity calls made (simulation steps started)
    bodies0,    \* history: the bodies as first handed in
    carried,    \* history: <<normalImpulse, tangentImpulse>> of each contact at step start
    handedA,    \* history: per contact, the sum of the impulses solveVelocity has
                \* handed to bodyA.applyImpulse in this step
    handedB,    \* history: the same for bodyB
    count       \* history: per contact, how often each stage has updated it

vars == <<solver, dt, bodies, manifolds, stage, pos, axis, iter, step,
          bodies0, carried, handedA, handedB, count>>

history == <<bodies0, carried, handedA, handedB, count>>

ContactConstraint == "ContactConstraint"

CollisionSolver == "CollisionSolver"

End == <<0, 0>>

\* ------------------------------------------------------------------------
\* Loop order: for (i ...) { if inactive continue; for (j ...) { ... } }
\* ------------------------------------------------------------------------

AllContacts(ms) ==
    UNION {{<<i, j>> : j \in 1..Len(ms[i].collision.contacts)} : i \in 1..Len(ms)}

Visited(ms) == {p \in AllContacts(ms) : ~Skipped(ms[p[1]])}

Before(p, q) == p[1] < q[1] \/ (p[1] = q[1] /\ p[2] < q[2])

\* The contact the loops reach after p (after nothing when p = End), or End.
NextContact(ms, p) ==
    LET later == {q \in Visited(ms) : Before(p, q)}
    IN  IF later = {} THEN End
        ELSE CHOOSE q \in later : \A r \in later : r = q \/ Before(q, r)

FirstContact(ms) == NextContact(ms, End)

\* The loop bound off by one: i <= this.iterations.
LoopContinuesInclusive(i) == i <= iterations

\* for(let i = 0; i < this.iterations; i++)
LoopContinues(i) == i < iterations

ContactAt(ms, p) == ms[p[1]].collision.contacts[p[2]]

SetContact(ms, p, c) == [ms EXCEPT ![p[1]].collision.contacts[p[2]] = c]

Bump(cnt, p, field) ==
    [cnt EXCEPT ![p] = [@ EXCEPT ![field] = @ + 1]]

Hand(h, p, given, impulse) ==
    IF given THEN [h EXCEPT ![p] = VAdd(@, impulse)] ELSE h

\* ------------------------------------------------------------------------
\* Inputs: three bodies in a row along the x axis, two manifolds sharing the
\* middle body. Manifold 1 is (bodyA = 2, bodyB = 1), manifold 2 is
\* (bodyA = 3, bodyB = 2); the normal (1, 0) points from bodyB to bodyA.
\* ------------------------------------------------------------------------

Solvers == {ContactConstraint, CollisionSolver}

Kinds == {"movable", "fixed", "sleeping"}

FixedKinds == {"fixed", "static"}

\* Velocities of body 1: towards body 2, at rest along the normal or away from
\* it, with or without sliding.
Vels == {Vec(vx, vy) : vx \in -1..MaxVel, vy \in {0, 1}}

\* Two manifolds in contact, every combination of body kinds; dt = 1.
General ==
    {cfg \in [solver : Solvers, dt : {One}, restitution : {One},
              friction : {Rat(1, 4)}, kindA : Kinds, kindB : {"movable"} \cup FixedKinds,
              vB : Vels, nc : 1..MaxContacts,
              active : {<<TRUE, TRUE>>, <<TRUE, FALSE>>, <<FALSE, TRUE>>},
              countZero : {FALSE}] :
        \* Exact arithmetic has to stay within TLC's 32-bit integers. Twenty
        \* passes over two manifolds that both move the middle body halve a
        \* residual forty times, so ContactConstraint runs them with the middle
        \* body immovable; CollisionSolver, which divides every share by the
        \* contact count n and so leaves (1 - 1/n) of a residual per update,
        \* runs with at most two contacts.
        /\ cfg.solver = ContactConstraint /\ cfg.active = <<TRUE, TRUE>>
               => cfg.kindA # "movable"
        /\ cfg.solver = CollisionSolver => cfg.nc <= 2}

\* One manifold, one contact, two movable bodies, body 1 approaching along the
\* normal, no friction, other restitutions.
Restitutions ==
    [solver : Solvers, dt : {One}, restitution : {Zero, Rat(1, 2)},
     friction : {Zero}, kindA : {"movable"}, kindB : {"movable"},
     vB : {Vec(vx, 0) : vx \in 1..MaxSpeed}, nc : {1},
     active : {<<TRUE, FALSE>>}, countZero : {FALSE}]

\* Callers' slips: dt = 0, dt < 0, and an empty manifold.contacts.
Degenerate ==
    {cfg \in [solver : Solvers, dt : {Zero, Neg(One), One}, restitution : {One},
              friction : {Rat(1, 4)}, kindA : {"movable"}, kindB : {"movable"},
              vB : {Vec(1, 1)}, nc : 1..MaxContacts,
              active : {<<TRUE, FALSE>>}, countZero : BOOLEAN] :
        /\ cfg.countZero => cfg.solver = CollisionSolver
        /\ cfg.dt = One => cfg.countZero
        /\ cfg.solver = CollisionSolver => cfg.nc <= 2}

Configs == General \cup Restitutions \cup Degenerate

KindOf(cfg, id) == IF id = 1 THEN cfg.kindB ELSE IF id = 2 THEN cfg.kindA ELSE "movable"

\* Unit masses, but for a static body; a body that is not movable has no
\* rotational response.
MakeBodies(cfg) ==
    [id \in 1..3 |->
        Body(Vec(2 * (id - 1), 0),
             IF id = 1 THEN cfg.vB ELSE IF id = 2 THEN Vec(0, 0) ELSE Vec(-1, 0),
             IF KindOf(cfg, id) = "static" THEN Zero ELSE One,
             IF KindOf(cfg, id) = "movable" THEN One ELSE Zero,
             KindOf(cfg, id))]

\* The manifold's combined inverse mass: that of its movable bodies.
CombinedInverseMass(bs, a, b) ==
    Add(IF Movable(bs[a]) THEN bs[a].invMass ELSE Zero,
        IF Movable(bs[b]) THEN bs[b].invMass ELSE Zero)

\* Contact j of a manifold lies on the line of centres, 0.1 deeper than the last.
MakeContacts(at, n) == [j \in 1..n |-> Contact(Vec(at, 0), Rat(j - 1, 10))]

MakeManifold(cfg, bs, a, b, at, n, isActive) ==
    [isActive |-> isActive,
     inverseMass |-> CombinedInverseMass(bs, a, b),
     restitution |-> cfg.restitution,
     friction |-> cfg.friction,
     contactsLength |-> IF cfg.countZero THEN 0 ELSE n,
     collision |-> [normal |-> Vec(1, 0), tangent |-> Vec(0, 1),
                    bodyA |-> a, bodyB |-> b,
                    depth |-> Rat(n - 1, 10),
                    contacts |-> MakeContacts(at, n)]]

MakeManifolds(cfg) ==
    LET bs == MakeBodies(cfg)
    IN  <<MakeManifold(cfg, bs, 2, 1, 1, cfg.nc, cfg.active[1]),
          MakeManifold(cfg, bs, 3, 2, 3, 1, cfg.active[2])>>

Init ==
    \E cfg \in Configs :
        /\ solver = cfg.solver
        /\ dt = cfg.dt
        /\ bodies = MakeBodies(cfg)
        /\ manifolds = MakeManifolds(cfg)
        /\ stage = "pre"
        /\ pos = FirstContact(MakeManifolds(cfg))
        /\ axis = "normal"
        /\ iter = 0
        /\ step = 1
        /\ bodies0 = MakeBodies(cfg)
        /\ carried = [p \in AllContacts(MakeManifolds(cfg)) |-> <<Zero, Zero>>]
        /\ handedA = [p \in AllContacts(MakeManifolds(cfg)) |-> <<Zero, Zero>>]
        /\ handedB = [p \in AllContacts(MakeManifolds(cfg)) |-> <<Zero, Zero>>]
        /\ count = [p \in AllContacts(MakeManifolds(cfg)) |->
                       [pre |-> 0, normal |-> 0, tangent |-> 0]]

\* ------------------------------------------------------------------------
\* ContactConstraint
\* ------------------------------------------------------------------------

\* preSolveVelocity, the body of the inner loop for one contact.
PreSolveVelocity ==
    /\ solver = ContactConstraint /\ stage = "pre" /\ pos # End
    /\ LET manifold == manifolds[pos[1]]
           collision == manifold.collision
           contact == PreSolved(manifold, ContactAt(manifolds, pos),
                                bodies[collision.bodyA], bodies[collision.bodyB], dt)
       IN  manifolds' = SetContact(manifolds, pos, contact)
    /\ pos' = NextContact(manifolds, pos)
    /\ count' = Bump(count, pos, "pre")
    /\ UNCHANGED <<solver, dt, bodies, stage, axis, iter, step,
                   bodies0, carried, handedA, handedB>>

\* solve: preSolveVelocity has returned, the loop of passes starts.
PreSolveVelocityReturn ==
    /\ solver = ContactConstraint /\ stage = "pre" /\ pos = End
    /\ IF LoopContinues(0)
       THEN stage' = "vel" /\ pos' = FirstContact(manifolds)
       ELSE stage' = "done" /\ pos' = End
    /\ UNCHANGED <<solver, dt, bodies, manifolds, axis, iter, step, history>>

\* solveVelocity, first half of the inner loop: the normal impulse of one contact.
SolveVelocityNormal ==
    /\ solver = ContactConstraint /\ stage = "vel" /\ pos # End /\ axis = "normal"
    /\ LET manifold == manifolds[pos[1]]
           collision == manifold.collision
           contact == ContactAt(manifolds, pos)
           A == bodies[collision.bodyA]
           B == bodies[collision.bodyB]
           oldNormalImpulse == contact.normalImpulse
           accumulated == AccumulateNormal(oldNormalImpulse,
                                           TentativeNormal(manifold, contact, A, B))
           normalImpulse == Sub(accumulated, oldNormalImpulse)
           impulse == VScl(collision.normal, normalImpulse)
       IN  /\ manifolds' = SetContact(manifolds, pos,
                                      [contact EXCEPT !.normalImpulse = accumulated])
           /\ bodies' = ApplyPair(bodies, collision, contact, impulse)
           /\ handedA' = Hand(handedA, pos, Movable(A), impulse)
           /\ handedB' = Hand(handedB, pos, Movable(B), VInv(impulse))
    /\ axis' = "tangent"
    /\ count' = Bump(count, pos, "normal")
    /\ UNCHANGED <<solver, dt, stage, pos, iter, step, bodies0, carried>>

\* solveVelocity, second half: the tangent impulse of the same contact.
SolveVelocityTangent ==
    /\ solver = ContactConstraint /\ stage = "vel" /\ pos # End /\ axis = "tangent"
    /\ LET manifold == manifolds[pos[1]]
           collision == manifold.collision
           contact == ContactAt(manifolds, pos)
           A == bodies[collision.bodyA]
           B == bodies[collision.bodyB]
           oldTangentImpulse == contact.tangentImpulse
           accumulated == AccumulateTangent(oldTangentImpulse,
                                            TentativeTangent(manifold, contact, A, B),
                                            MaxFriction(manifold, contact))
           tangentImpulse == Sub(accumulated, oldTangentImpulse)
           impulse == VScl(collision.tangent, tangentImpulse)
       IN  /\ manifolds' = SetContact(manifolds, pos,
                                      [contact EXCEPT !.tangentImpulse = accumulated])
           /\ bodies' = ApplyPair(bodies, collision, contact, impulse)
           /\ handedA' = Hand(handedA, pos, Movable(A), impulse)
           /\ handedB' = Hand(handedB, pos, Movable(B), VInv(impulse))
    /\ axis' = "normal"
    /\ pos' = NextContact(manifolds, pos)
    /\ count' = Bump(count, pos, "tangent")
    /\ UNCHANGED <<solver, dt, stage, iter, step, bodies0, carried>>

\* solve: one solveVelocity pass has returned; the loop runs it again or ends.
SolveVelocityReturn ==
    /\ solver = ContactConstraint /\ stage = "vel" /\ pos = End
    /\ iter' = iter + 1
    /\ IF LoopContinues(iter + 1)
       THEN stage' = "vel" /\ pos' = FirstContact(manifolds)
       ELSE stage' = "done" /\ pos' = End
    /\ UNCHANGED <<solver, dt, bodies, manifolds, axis, step, history>>

\* ------------------------------------------------------------------------
\* CollisionSolver
\* ------------------------------------------------------------------------

\* preSolveVelocity for one contact, with the warm start.
CollisionPreSolveVelocity ==
    /\ solver = CollisionSolver /\ stage = "pre" /\ pos # End
    /\ LET manifold == manifolds[pos[1]]
           collision == manifold.collision
           A == bodies[collision.bodyA]
           B == bodies[collision.bodyB]
           contact == PreSolvedCount(manifold, ContactAt(manifolds, pos), A, B, dt)
           impulse == WarmImpulse(collision, contact)
       IN  /\ manifolds' = SetContact(manifolds, pos, contact)
           /\ IF WarmStarts(contact)
              THEN bodies' = ApplyPair(bodies, collision, contact, impulse)
              ELSE UNCHANGED bodies
    /\ pos' = NextContact(manifolds, pos)
    /\ count' = Bump(count, pos, "pre")
    /\ UNCHANGED <<solver, dt, stage, axis, iter, step,
                   bodies0, carried, handedA, handedB>>

\* preSolveVelocity returns to the caller.
CollisionPreSolveVelocityReturn ==
    /\ solver = CollisionSolver /\ stage = "pre" /\ pos = End
    /\ stage' = "idle"
    /\ UNCHANGED <<solver, dt, bodies, manifolds, pos, axis, iter, step, history>>

\* solveVelocity, the normal impulse of one contact.
CollisionSolveVelocityNormal ==
    /\ solver = CollisionSolver /\ stage = "vel" /\ pos # End /\ axis = "normal"
    /\ LET manifold == manifolds[pos[1]]
           collision == manifold.collision
           contact == ContactAt(manifolds, pos)
           A == bodies[collision.bodyA]
           B == bodies[collision.bodyB]
           oldNormalImpulse == contact.normalImpulse
           accumulated == AccumulateNormal(oldNormalImpulse,
                                           TentativeNormal(manifold, contact, A, B))
           normalImpulse == Sub(accumulated, oldNormalImpulse)
           impulse == VScl(collision.normal, normalImpulse)
       IN  /\ manifolds' = SetContact(manifolds, pos,
                                      [contact EXCEPT !.normalImpulse = accumulated])
           /\ bodies' = ApplyPair(bodies, collision, contact, impulse)
           /\ handedA' = Hand(handedA, pos, Movable(A), impulse)
           /\ handedB' = Hand(handedB, pos, Movable(B), VInv(impulse))
    /\ axis' = "tangent"
    /\ count' = Bump(count, pos, "normal")
    /\ UNCHANGED <<solver, dt, stage, pos, iter, step, bodies0, carried>>

\* solveVelocity, the tangent impulse: handed to the bodies that are awake,
\* then once more to the bodies that are neither asleep nor fixed.
CollisionSolveVelocityTangent ==
    /\ solver = CollisionSolver /\ stage = "vel" /\ pos # End /\ axis = "tangent"
    /\ LET manifold == manifolds[pos[1]]
           collision == manifold.collision
           contact == ContactAt(manifolds, pos)
           A == bodies[collision.bodyA]
           B == bodies[collision.bodyB]
           oldTangentImpulse == contact.tangentImpulse
           accumulated == AccumulateTangent(oldTangentImpulse,
                                            TentativeTangent(manifold, contact, A, B),
                                            MaxFriction(manifold, contact))
           tangentImpulse == Sub(accumulated, oldTangentImpulse)
           impulse == VScl(collision.tangent, tangentImpulse)
           first == ApplyAwakePair(bodies, collision, contact, tangentImpulse)
       IN  /\ manifolds' = SetContact(manifolds, pos,
                                      [contact EXCEPT !.tangentImpulse = accumulated])
           /\ bodies' = ApplyPair(first, collision, contact, impulse)
           /\ handedA' = Hand(Hand(handedA, pos, Awake(A), impulse),
                              pos, Movable(A), impulse)
           /\ handedB' = Hand(Hand(handedB, pos, Awake(B), VInv(impulse)),
                              pos, Movable(B), VInv(impulse))
    /\ axis' = "normal"
    /\ pos' = NextContact(manifolds, pos)
    /\ count' = Bump(count, pos, "tangent")
    /\ UNCHANGED <<solver, dt, stage, iter, step, bodies0, carried>>

\* solveVelocity returns to the caller.
CollisionSolveVelocityReturn ==
    /\ solver = CollisionSolver /\ stage = "vel" /\ pos = End
    /\ iter' = iter + 1
    /\ stage' = "idle"
    /\ UNCHANGED <<solver, dt, bodies, manifolds, pos, axis, step, history>>

\* The caller runs one more solveVelocity pass of this step (MaxPasses in all).
CallSolveVelocity ==
    /\ solver = CollisionSolver /\ stage = "idle" /\ iter < MaxPasses
    /\ stage' = "vel"
    /\ pos' = FirstContact(manifolds)
    /\ UNCHANGED <<solver, dt, bodies, manifolds, axis, iter, step, history>>

\* The caller starts the next step on the same contacts, which carry their
\* accumulated impulses into it.
CallPreSolveVelocity ==
    /\ solver = CollisionSolver /\ stage = "idle" /\ step < MaxSteps
    /\ stage' = "pre"
    /\ pos' = FirstContact(manifolds)
    /\ step' = step + 1
    /\ carried' = [p \in AllContacts(manifolds) |->
                      <<ContactAt(manifolds, p).normalImpulse,
                        ContactAt(manifolds, p).tangentImpulse>>]
    /\ handedA' = [p \in AllContacts(manifolds) |-> <<Zero, Zero>>]
    /\ handedB' = [p \in AllContacts(manifolds) |-> <<Zero, Zero>>]
    /\ UNCHANGED <<solver, dt, bodies, manifolds, axis, iter, bodies0, count>>

Next ==
    \/ PreSolveVelocity
    \/ PreSolveVelocityReturn
    \/ SolveVelocityNormal
    \/ SolveVelocityTangent
    \/ SolveVelocityReturn
    \/ CollisionPreSolveVelocity
    \/ CollisionPreSolveVelocityReturn
    \/ CollisionSolveVelocityNormal
    \/ CollisionSolveVelocityTangent
    \/ CollisionSolveVelocityReturn
    \/ CallSolveVelocity
    \/ CallPreSolveVelocity

Spec == Init /\ [][Next]_vars

\* ------------------------------------------------------------------------
\* Properties
\* ------------------------------------------------------------------------

NumAbs(a) == <<Abs(a[1]), a[2]>>

Positive(a) == Lt(Zero, a)

\* The contacts of active manifolds.
ActiveContacts == {p \in AllContacts(manifolds) : manifolds[p[1]].isActive}

\* A solveVelocity pass has just ended, or none is running.
PassEnded == stage \in {"idle", "done"} \/ (stage = "vel" /\ pos = End)

BothMovable(p) ==
    /\ Movable(bodies[manifolds[p[1]].collision.bodyA])
    /\ Movable(bodies[manifolds[p[1]].collision.bodyB])

\* Every share and bias stored so far is a finite number.
SharesAndBiasFinite ==
    \A p \in AllContacts(manifolds) :
        /\ IsFinite(ContactAt(manifolds, p).shareNormal)
        /\ IsFinite(ContactAt(manifolds, p).shareTangent)
        /\ IsFinite(ContactAt(manifolds, p).bias)

\* C1: with dt > 0, every contact's normalImpulse is >= 0 after
\* preSolveVelocity and after every contact update of every pass.
NormalImpulseNonNegative ==
    Positive(dt) =>
        \A p \in AllContacts(manifolds) :
            Leq(Zero, ContactAt(manifolds, p).normalImpulse)

\* C1, the part that holds: as long as every stored share and bias is finite,
\* normalImpulse >= 0.
NormalImpulseNonNegativeWhileFinite ==
    SharesAndBiasFinite =>
        \A p \in AllContacts(manifolds) :
            Leq(Zero, ContactAt(manifolds, p).normalImpulse)

\* C2: with dt > 0, at the end of every pass every contact of an active manifold
\* with friction >= 0 has |tangentImpulse| <= friction * normalImpulse.
FrictionCone ==
    (Positive(dt) /\ PassEnded) =>
        \A p \in ActiveContacts :
            Leq(Zero, manifolds[p[1]].friction) =>
                Leq(NumAbs(ContactAt(manifolds, p).tangentImpulse),
                    Mul(manifolds[p[1]].friction, ContactAt(manifolds, p).normalImpulse))

\* C2, the part that holds: the same while every stored share and bias is finite.
FrictionConeWhileFinite == SharesAndBiasFinite => FrictionCone

ImmovableBodiesUntouchedByContactConstraint ==
    [][solver = ContactConstraint =>
          \A id \in DOMAIN bodies :
              ~Movable(bodies[id]) =>
                  /\ bodies'[id].velocity = bodies[id].velocity
                  /\ bodies'[id].angularVelocity = bodies[id].angularVelocity]_vars

\* The scenario of C4: ContactConstraint, manifold 1 alone active with one
\* contact between two movable unit-mass bodies, bodyA at rest, bodyB moving
\* along the normal towards bodyA, no friction, depth within the slop.
RestitutionScenario ==
    /\ solver = ContactConstraint /\ dt = One
    /\ manifolds[1].isActive /\ ~manifolds[2].isActive
    /\ Len(manifolds[1].collision.contacts) = 1
    /\ Leq(manifolds[1].collision.contacts[1].depth, slop)
    /\ manifolds[1].friction = Zero
    /\ manifolds[1].inverseMass = Num(2)
    /\ BothMovable(<<1, 1>>)
    /\ bodies0[2].velocity = Vec(0, 0)
    /\ bodies0[1].velocity[2] = Zero
    /\ Positive(bodies0[1].velocity[1])

\* normal . (bodyB.velocity - bodyA.velocity) of manifold 1 in bs.
RelativeNormalIn(bs) ==
    VDot(manifolds[1].collision.normal, VSub(bs[1].velocity, bs[2].velocity))

\* C4: in the scenario, after solve the relative normal velocity is -e * v.
RestitutionLaw ==
    (RestitutionScenario /\ stage = "done") =>
        RelativeNormalIn(bodies) =
            Neg(Mul(manifolds[1].restitution, RelativeNormalIn(bodies0)))

\* What the accumulated impulses of contact p have grown by in this step, as a
\* vector.
GrownImpulse(p) ==
    LET collision == manifolds[p[1]].collision
        contact == ContactAt(manifolds, p)
    IN  VAdd(VScl(collision.normal, Sub(contact.normalImpulse, carried[p][1])),
             VScl(collision.tangent, Sub(contact.tangentImpulse, carried[p][2])))

OnlyDeltaAppliedByContactConstraint ==
    solver = ContactConstraint =>
        \A p \in AllContacts(manifolds) :
            BothMovable(p) =>
                /\ handedA[p] = GrownImpulse(p)
                /\ handedB[p] = VInv(GrownImpulse(p))

\* C6: no step writes a contact of an inactive manifold, and a body changes
\* only in a step on an active manifold that references it.
InactiveManifoldSkipped ==
    [][/\ \A i \in 1..Len(manifolds) :
              ~manifolds[i].isActive => manifolds'[i] = manifolds[i]
       /\ \A id \in DOMAIN bodies :
              bodies'[id] # bodies[id] =>
                  /\ pos # End
                  /\ manifolds[pos[1]].isActive
                  /\ id \in {manifolds[pos[1]].collision.bodyA,
                             manifolds[pos[1]].collision.bodyB}]_vars

\* C6 witness: a finished solve in which manifold 2 is inactive and unwritten
\* while the body it shares with active manifold 1 has been moved.
InactiveManifoldSkippedWitness ==
    /\ stage = "done"
    /\ ~manifolds[2].isActive /\ manifolds[1].isActive
    /\ manifolds[2].collision.contacts[1].offsetA = Undefined
    /\ bodies[2].velocity # bodies0[2].velocity

\* C7: no stored share is infinite or not-a-number, and no accumulated impulse
\* either.
SharesFinite ==
    Positive(dt) =>
        \A p \in AllContacts(manifolds) :
            /\ IsFinite(ContactAt(manifolds, p).shareNormal)
            /\ IsFinite(ContactAt(manifolds, p).shareTangent)
            /\ IsFinite(ContactAt(manifolds, p).normalImpulse)
            /\ IsFinite(ContactAt(manifolds, p).tangentImpulse)

\* C8: with dt <= 0 nothing is written: every contact stays as constructed and
\* every body as handed in.
NonPositiveDtRejected ==
    ~Positive(dt) =>
        /\ bodies = bodies0
        /\ \A p \in AllContacts(manifolds) :
               /\ ContactAt(manifolds, p).offsetA = Undefined
               /\ ContactAt(manifolds, p).bias = Zero

\* The order of one ContactConstraint.solve, in terms of how often each
\* contact has been updated by each stage.
SolveOrder ==
    solver = ContactConstraint =>
        /\ iter <= iterations
        /\ stage = "done" => iter = iterations
        /\ \A p \in AllContacts(manifolds) \ ActiveContacts :
               count[p] = [pre |-> 0, normal |-> 0, tangent |-> 0]
        /\ \A p \in ActiveContacts :
               \* pre-solve exactly once, before the first velocity update
               /\ count[p].pre <= 1
               /\ stage # "pre" => count[p].pre = 1
               /\ stage = "pre" => count[p].normal = 0
               /\ count[p].pre = 1 <=> ContactAt(manifolds, p).offsetA # Undefined
               \* normal before tangent, once each per pass
               /\ count[p].tangent <= count[p].normal
               /\ count[p].normal <= count[p].tangent + 1
               /\ count[p].normal > count[p].tangent <=>
                      (stage = "vel" /\ pos = p /\ axis = "tangent")
               \* exactly `iterations` passes
               /\ count[p].normal <= iterations
               /\ stage = "done" => count[p].tangent = iterations
               /\ stage = "vel" => count[p].tangent \in {iter, iter + 1}
               /\ (stage = "vel" /\ pos = End) => count[p].tangent = iter + 1
        /\ \A p, q \in ActiveContacts :
               \* manifolds in list order, contacts in contact order
               Before(p, q) =>
                   /\ count[q].pre <= count[p].pre
                   /\ count[q].normal <= count[p].tangent
                   /\ count[p].normal <= count[q].tangent + 1
        \* the tangent half starts from bodies that already carry the normal delta
        /\ (stage = "vel" /\ pos # End /\ axis = "tangent" /\ BothMovable(pos)) =>
               handedA[pos] = GrownImpulse(pos)

\* Steps left of a ContactConstraint.solve: it decreases with every step.
StepsLeft ==
    LET n == Cardinality(ActiveContacts)
        done == LET Sum[S \in SUBSET ActiveContacts] ==
                        IF S = {} THEN 0
                        ELSE LET p == CHOOSE q \in S : TRUE
                             IN  count[p].pre + count[p].normal + count[p].tangent
                                   + Sum[S \ {p}]
                    IN  Sum[ActiveContacts]
    IN  (n * (1 + 2 * iterations) - done) + (iterations - iter)
          + (IF stage = "pre" THEN 1 ELSE 0)

\* C9: one ContactConstraint.solve runs preSolveVelocity once, then exactly
\* `iterations` passes in manifold order, contact order, normal before tangent,
\* and terminates: every step uses up one of the finitely many steps left, and
\* none is left exactly when solve is done.
SolveOrderAndTermination ==
    /\ [](SolveOrder /\ (solver = ContactConstraint =>
                            (StepsLeft >= 0 /\ (StepsLeft = 0 <=> stage = "done"))))
    /\ [][solver = ContactConstraint => StepsLeft' = StepsLeft - 1]_vars

\* C9 witness: a finished solve over two active manifolds, the first with more
\* than one contact.
SolveOrderWitness ==
    /\ solver = ContactConstraint /\ stage = "done"
    /\ manifolds[1].isActive /\ manifolds[2].isActive
    /\ Len(manifolds[1].collision.contacts) > 1
    /\ count[<<2, 1>>].tangent = iterations

\* C10: with dt > 0, every pre-solved contact of an active manifold has
\* bias = biasFactor * (1/dt) * max(0, depth - slop), never negative and 0 when
\* depth <= slop.
BiasFromDepthBeyondSlop ==
    Positive(dt) =>
        \A p \in ActiveContacts :
            count[p].pre > 0 =>
                LET contact == ContactAt(manifolds, p)
                IN  /\ contact.bias =
                           Mul(Mul(Rat(2, 10), Recip(dt)),
                               MathMax(Zero, Sub(contact.depth, Rat(2, 100))))
                    /\ Leq(Zero, contact.bias)
                    /\ Leq(contact.depth, Rat(2, 100)) => contact.bias = Zero

\* C10, the part that holds: ContactConstraint computes that bias.
BiasFromDepthBeyondSlopInContactConstraint ==
    solver = ContactConstraint => BiasFromDepthBeyondSlop

====
